---- MODULE Spec2Model ----
(***************************************************************************)
(* Model of flask_app/app.py: the /analyze handler.  An uploaded table of  *)
(* rows (time of day, Results, amount spent) is reduced to per-hour        *)
(* buckets, scanned for the worst circular block of hours for every window *)
(* size 3..12, and one of the ten window results is recommended.           *)
(*                                                                         *)
(* Numbers.  Results and amounts are naturals.  A float of the program is  *)
(* a record [k, n, d]: k = "num" is the exact rational n/d (d > 0),        *)
(* k = "nan", "inf", "ninf" are the IEEE specials numpy produces on a      *)
(* division by zero.  Comparisons with a NaN are false, as in Python.      *)
(* Rounding error of binary floating point is not modelled.                *)
(*                                                                         *)
(* scipy.stats.ttest_ind is a library function: its p-value is NaN where   *)
(* the library's formula forces it, 0 where it forces that, and otherwise  *)
(* a value of the table ttest, which is an input of the model.  t_stat is  *)
(* carried beside p_value by the program and is not modelled.              *)
(***************************************************************************)
EXTENDS Integers, Sequences, FiniteSets, TLC

VARIABLES
    rows,            \* the uploaded file: sequence of [time, results, spend]
    added,           \* number of rows appended to the initial file
    ttest,           \* p-value table of the t-test, window size -> 1e-5 units
    pc,              \* "input", "done" (result.html), "error" (index.html)
    hourly,          \* hourly_new_data_set: Hour -> [results, spend, cpr]
    current_avg_cost,\* line 48
    scans,           \* per call of find_worst_hours: its locals at return
    results,         \* the list built at lines 96-99 (rounded fields)
    recommendation   \* the record rendered by result.html

vars == <<rows, added, ttest, pc, hourly, current_avg_cost, scans, results, recommendation>>

-----------------------------------------------------------------------------
(* Bounds of the model *)

MaxExtraRows == 2

(* Program constants *)
HoursPerDay == 24
MinWindow == 3
MaxWindowExcl == 13
CostDecimals == 2
PDecimals == 4

WindowSizes == MinWindow .. (MaxWindowExcl - 1)

-----------------------------------------------------------------------------
(* Floats *)

Num(n, d) == [k |-> "num", n |-> n, d |-> d]
NaN == [k |-> "nan", n |-> 0, d |-> 1]
PosInf == [k |-> "inf", n |-> 0, d |-> 1]
NegInf == [k |-> "ninf", n |-> 0, d |-> 1]
Zero == Num(0, 1)

IsNum(x) == x.k = "num"
IsNaN(x) == x.k = "nan"

(* floor(a / b) for b > 0 and any integer a *)
FloorDiv(a, b) == IF a >= 0 THEN a \div b ELSE -((-a + b - 1) \div b)

RECURSIVE RatLt(_, _, _, _)
(* n1/d1 < n2/d2 for d1, d2 > 0, by integer parts and then the reciprocals
   of the fractional parts: exact, and no product is formed *)
RatLt(n1, d1, n2, d2) ==
    LET q1 == FloorDiv(n1, d1)
        q2 == FloorDiv(n2, d2)
        r1 == n1 - q1 * d1
        r2 == n2 - q2 * d2
    IN IF q1 # q2 THEN q1 < q2
       ELSE IF r2 = 0 THEN FALSE
       ELSE IF r1 = 0 THEN TRUE
       ELSE RatLt(d2, r2, d1, r1)

(* x < y and x > y of Python floats *)
Lt(x, y) ==
    CASE IsNaN(x) \/ IsNaN(y) -> FALSE
      [] x.k = "ninf" -> y.k # "ninf"
      [] y.k = "inf" -> x.k # "inf"
      [] x.k = "inf" \/ y.k = "ninf" -> FALSE
      [] OTHER -> RatLt(x.n, x.d, y.n, y.d)
Gt(x, y) == Lt(y, x)
Eq(x, y) ==
    CASE IsNaN(x) \/ IsNaN(y) -> FALSE
      [] IsNum(x) /\ IsNum(y) -> ~Lt(x, y) /\ ~Lt(y, x)
      [] OTHER -> x.k = y.k

(* numpy's a / b for integers a, b >= 0: no exception, inf or nan on b = 0 *)
NpDiv(a, b) ==
    IF b # 0 THEN Num(a, b)
    ELSE IF a > 0 THEN PosInf
    ELSE IF a < 0 THEN NegInf
    ELSE NaN

(* x - y, abs(x) for a float x and a finite y *)
Sub(x, y) ==
    IF ~IsNum(x) THEN x
    ELSE IF x.d % y.d = 0 THEN Num(x.n - y.n * (x.d \div y.d), x.d)
    ELSE Num(x.n * y.d - y.n * x.d, x.d * y.d)
Abs(x) ==
    CASE IsNum(x) -> Num(IF x.n < 0 THEN -x.n ELSE x.n, x.d)
      [] x.k = "ninf" -> PosInf
      [] OTHER -> x

Pow10(e) == IF e = 0 THEN 1 ELSE IF e = 1 THEN 10 ELSE IF e = 2 THEN 100
            ELSE IF e = 3 THEN 1000 ELSE 10000

(* round(x, decimals): nearest multiple of 10^-decimals, ties to even;
   nan and the infinities are returned as they are *)
Round(x, decimals) ==
    IF ~IsNum(x) THEN x
    ELSE LET s == Pow10(decimals)
             a == x.n * s
             q == FloorDiv(a, x.d)
             r2 == 2 * (a - q * x.d)
             k == IF r2 < x.d THEN q
                  ELSE IF r2 > x.d THEN q + 1
                  ELSE IF q % 2 = 0 THEN q ELSE q + 1
         IN Num(k, s)


-----------------------------------------------------------------------------
(* The uploaded file.  A time-of-day cell is a sequence of characters, a   *)
(* numeric cell is <<>> (empty, read by pandas as NaN) or <<n>>.           *)

DigitChars == <<"0", "1", "2", "3", "4", "5", "6", "7", "8", "9">>
IsDigit(c) == \E i \in 1..10 : DigitChars[i] = c
DigitVal(c) == (CHOOSE i \in 1..10 : DigitChars[i] = c) - 1

(* Series.str.slice(0, 2): the first two characters (fewer if the string is
   shorter) *)
StrSlice02(s) == SubSeq(s, 1, IF Len(s) < 2 THEN Len(s) ELSE 2)

(* astype(int) of one string of at most two characters, Python's int():
   decimal digits with an optional sign; anything else raises ValueError.
   No range check follows. *)
AsInt(s) ==
    CASE Len(s) = 2 /\ IsDigit(s[1]) /\ IsDigit(s[2]) ->
            [ok |-> TRUE, v |-> 10 * DigitVal(s[1]) + DigitVal(s[2])]
      [] Len(s) = 2 /\ s[1] = "-" /\ IsDigit(s[2]) ->
            [ok |-> TRUE, v |-> -DigitVal(s[2])]
      [] Len(s) = 2 /\ s[1] = "+" /\ IsDigit(s[2]) ->
            [ok |-> TRUE, v |-> DigitVal(s[2])]
      [] Len(s) = 1 /\ IsDigit(s[1]) ->
            [ok |-> TRUE, v |-> DigitVal(s[1])]
      [] OTHER -> [ok |-> FALSE, v |-> 0]

(* new_data_set['Hour'] of one row *)
HourOf(row) == AsInt(StrSlice02(row.time))

(* fillna(0) of one numeric cell *)
FillNa(cell) == IF cell = <<>> THEN 0 ELSE cell[1]

(* The data set after lines 28-33: Hour, Results and amount spent per row *)
Normalized(rs) ==
    [i \in 1..Len(rs) |->
        [hour |-> HourOf(rs[i]).v,
         results |-> FillNa(rs[i].results),
         spend |-> FillNa(rs[i].spend)]]

HoursParse(rs) == \A i \in 1..Len(rs) : HourOf(rs[i]).ok

-----------------------------------------------------------------------------
(* Hourly aggregation, lines 36-48 *)

(* 'Cost per Result': spend / results, then +-inf replaced by 0; 0/0 stays
   NaN *)
CostPerResult(spend, res) ==
    LET q == NpDiv(spend, res)
    IN IF q.k \in {"inf", "ninf"} THEN Zero ELSE q

(* AddToGroup with the sum replaced by the last row of the hour *)
AddToGroupOverwrite(groups, row) ==
    IF row.hour \in DOMAIN groups
    THEN [groups EXCEPT ![row.hour] =
            [results |-> row.results, spend |-> row.spend]]
    ELSE groups @@ (row.hour :> [results |-> row.results, spend |-> row.spend])

(* one row added to the sums of its hour's group *)
AddToGroup(groups, row) ==
    IF row.hour \in DOMAIN groups
    THEN [groups EXCEPT ![row.hour] =
            [results |-> @.results + row.results,
             spend |-> @.spend + row.spend]]
    ELSE groups @@ (row.hour :> [results |-> row.results, spend |-> row.spend])

RECURSIVE GroupBySum(_, _, _)
(* groupby('Hour').agg({'Results': 'sum', amount: 'sum'}) over the rows
   i..Len(data): one group per hour value that occurs *)
GroupBySum(data, i, groups) ==
    IF i > Len(data) THEN groups
    ELSE GroupBySum(data, i + 1, AddToGroup(groups, data[i]))

WithCostPerResult(groups, h) ==
    [results |-> groups[h].results, spend |-> groups[h].spend,
     cpr |-> CostPerResult(groups[h].spend, groups[h].results)]

RECURSIVE AddCostColumn(_, _, _)
AddCostColumn(groups, hs, acc) ==
    IF hs = {} THEN acc
    ELSE LET h == CHOOSE x \in hs : TRUE
         IN AddCostColumn(groups, hs \ {h},
                          acc @@ (h :> WithCostPerResult(groups, h)))

(* hourly_new_data_set after line 43 *)
Aggregate(data) ==
    LET groups == GroupBySum(data, 1, <<>>)
    IN AddCostColumn(groups, DOMAIN groups, <<>>)

RECURSIVE SumBuckets(_, _, _)
(* sum of column f over the buckets of hly whose Hour is in hs *)
SumBuckets(hly, f, hs) ==
    IF hs = {} THEN 0
    ELSE LET h == CHOOSE x \in hs : TRUE
         IN hly[h][f] + SumBuckets(hly, f, hs \ {h})

(* hourly[hourly['Hour'].isin(block)] and its complement, as sets of Hour *)
RangeOf(seq) == {seq[i] : i \in 1..Len(seq)}
IsIn(hly, block) == DOMAIN hly \cap RangeOf(block)
NotIsIn(hly, block) == DOMAIN hly \ RangeOf(block)

CurrentAvgCost(hly) ==
    NpDiv(SumBuckets(hly, "spend", DOMAIN hly),
          SumBuckets(hly, "results", DOMAIN hly))

-----------------------------------------------------------------------------
(* find_worst_hours, lines 51-93 *)

(* hours_block of line 56: window_size hours from start_hour, wrapping *)
HoursBlock(start_hour, window_size) ==
    [i \in 1..window_size |-> (start_hour + (i - 1)) % HoursPerDay]

(* total / results if results != 0 else 0 (lines 60, 70, 76) *)
AvgCost(total_cost, total_results) ==
    IF total_results # 0 THEN Num(total_cost, total_results) ELSE Zero

BlockAvgCost(hly, block) ==
    AvgCost(SumBuckets(hly, "spend", IsIn(hly, block)),
            SumBuckets(hly, "results", IsIn(hly, block)))

(* the comparison of line 62 *)
IsWorse(avg_cost, worst_avg_cost) == Gt(avg_cost, worst_avg_cost)

RECURSIVE ScanFrom(_, _, _, _, _)
(* the loop of lines 55-64 from start_hour on, with the running
   worst_avg_cost and worst_consecutive_hours *)
ScanFrom(hly, window_size, start_hour, worst_avg_cost, worst_hours) ==
    IF start_hour >= HoursPerDay THEN worst_hours
    ELSE LET block == HoursBlock(start_hour, window_size)
             avg == BlockAvgCost(hly, block)
         IN IF IsWorse(avg, worst_avg_cost)
            THEN ScanFrom(hly, window_size, start_hour + 1, avg, block)
            ELSE ScanFrom(hly, window_size, start_hour + 1,
                          worst_avg_cost, worst_hours)

(* lines 52-64: the scan starts from an empty block and a worst cost of 0 *)
WorstConsecutiveHours(hly, window_size) ==
    ScanFrom(hly, window_size, 0, Zero, <<>>)

(* line 79: ((current - remaining) / current) * 100 in float arithmetic;
   remaining is finite *)
ImprovementPct(cur, rem) ==
    CASE ~IsNum(cur) -> NaN
      [] cur.n = 0 ->
            IF rem.n = 0 THEN NaN ELSE IF rem.n > 0 THEN NegInf ELSE PosInf
      [] OTHER ->
            Num(100 * (cur.n * rem.d - rem.n * cur.d), cur.n * rem.d)

(* scipy.stats.ttest_ind(a, b) with equal variances, as p-value.  a and b
   are the 'Cost per Result' values of the two groups of buckets, given as
   functions from Hour.  NaN: an empty sample, a NaN among the values,
   n1 + n2 - 2 = 0 degrees of freedom, or zero pooled variance with equal
   means (0/0).  0: zero pooled variance with different means (t infinite).
   Otherwise the value of the table, in units of 1e-5.  A sample of one
   observation counts with variance 0, as in current scipy. *)
TTestP(a, b, p) ==
    LET va == {a[h] : h \in DOMAIN a}
        vb == {b[h] : h \in DOMAIN b}
        na == Cardinality(DOMAIN a)
        nb == Cardinality(DOMAIN b)
        const(v) == LET c == CHOOSE x \in v : TRUE IN \A x \in v : Eq(x, c)
    IN CASE na = 0 \/ nb = 0 -> NaN
         [] \E x \in va \cup vb : IsNaN(x) -> NaN
         [] na + nb - 2 = 0 -> NaN
         [] const(va) /\ const(vb) ->
                IF const(va \cup vb) THEN NaN ELSE Zero
         [] OTHER -> Num(p, 100000)

(* One call of find_worst_hours up to line 79: its locals *)
ScanStats(hly, cur, window_size) ==
    LET worst == WorstConsecutiveHours(hly, window_size)
        wh == IsIn(hly, worst)
        rh == NotIsIn(hly, worst)
        avg_worst == AvgCost(SumBuckets(hly, "spend", wh),
                             SumBuckets(hly, "results", wh))
        avg_rem == AvgCost(SumBuckets(hly, "spend", rh),
                           SumBuckets(hly, "results", rh))
    IN [window_size |-> window_size,
        worst_consecutive_hours |-> worst,
        worst_hours_data |-> wh,
        remaining_hours_data |-> rh,
        avg_cost_worst_hours |-> avg_worst,
        avg_cost_remaining_hours |-> avg_rem,
        improvement_percentage |-> ImprovementPct(cur, avg_rem)]

(* line 82: the t-test of the remaining against the worst hours' costs *)
WithTTest(loc, hly, p) ==
    [window_size |-> loc.window_size,
     worst_consecutive_hours |-> loc.worst_consecutive_hours,
     worst_hours_data |-> loc.worst_hours_data,
     remaining_hours_data |-> loc.remaining_hours_data,
     avg_cost_worst_hours |-> loc.avg_cost_worst_hours,
     avg_cost_remaining_hours |-> loc.avg_cost_remaining_hours,
     improvement_percentage |-> loc.improvement_percentage,
     p_value |-> TTestP([h \in loc.remaining_hours_data |-> hly[h].cpr],
                        [h \in loc.worst_hours_data |-> hly[h].cpr], p)]

(* the dictionary returned at lines 84-93 *)
Returned(cur, loc) ==
    [window_size |-> loc.window_size,
     worst_consecutive_hours |-> loc.worst_consecutive_hours,
     current_avg_cost |-> Round(cur, CostDecimals),
     avg_cost_worst_hours |-> Round(loc.avg_cost_worst_hours, CostDecimals),
     avg_cost_remaining_hours |->
         Round(loc.avg_cost_remaining_hours, CostDecimals),
     improvement_percentage |->
         Round(loc.improvement_percentage, CostDecimals),
     p_value |-> Round(loc.p_value, PDecimals)]

-----------------------------------------------------------------------------
(* The recommendation, lines 101-131 *)

Threshold == Num(5, 100)

IsSignificant(res) == Lt(res.p_value, Threshold)

(* [res for res in results if res['p_value'] < 0.05] *)
SignificantResults(rs) == SelectSeq(rs, IsSignificant)

ImprovementKey(res) == res.improvement_percentage
ClosenessKey(res) == Abs(Sub(res.p_value, Threshold))

RECURSIVE MaxFromLastWins(_, _, _)
(* MaxFrom with the running best also replaced by an item of equal key *)
MaxFromLastWins(seq, i, best) ==
    IF i > Len(seq) THEN best
    ELSE IF ~Lt(ImprovementKey(seq[i]), ImprovementKey(best))
         THEN MaxFromLastWins(seq, i + 1, seq[i])
         ELSE MaxFromLastWins(seq, i + 1, best)

RECURSIVE MaxFrom(_, _, _)
(* Python's max(seq, key=improvement): the running best is replaced only by
   an item whose key is greater *)
MaxFrom(seq, i, best) ==
    IF i > Len(seq) THEN best
    ELSE IF Gt(ImprovementKey(seq[i]), ImprovementKey(best))
         THEN MaxFrom(seq, i + 1, seq[i])
         ELSE MaxFrom(seq, i + 1, best)

RECURSIVE MinFrom(_, _, _)
(* Python's min(seq, key=closeness): the running best is replaced only by
   an item whose key is smaller *)
MinFrom(seq, i, best) ==
    IF i > Len(seq) THEN best
    ELSE IF Lt(ClosenessKey(seq[i]), ClosenessKey(best))
         THEN MinFrom(seq, i + 1, seq[i])
         ELSE MinFrom(seq, i + 1, best)

BestSignificant(rs) ==
    LET sig == SignificantResults(rs) IN MaxFrom(sig, 2, sig[1])
ClosestResult(rs) == MinFrom(rs, 2, rs[1])

(* the dictionaries of lines 106-117 and 120-131 *)
Recommendation(res, message, style) ==
    [message |-> message,
     window_size |-> res.window_size,
     worst_consecutive_hours |-> res.worst_consecutive_hours,
     current_avg_cost |-> res.current_avg_cost,
     avg_cost_worst_hours |-> res.avg_cost_worst_hours,
     avg_cost_remaining_hours |-> res.avg_cost_remaining_hours,
     improvement_percentage |-> res.improvement_percentage,
     p_value |-> res.p_value,
     style |-> style]

Recommend(rs) ==
    IF SignificantResults(rs) # <<>>
    THEN Recommendation(BestSignificant(rs),
            "Best Window Size for Improvement (with p-value < 0.05):",
            "success")
    ELSE Recommendation(ClosestResult(rs),
            "No window size has a p-value < 0.05<br> Showing the closest result:",
            "warning")

-----------------------------------------------------------------------------
(* Inputs *)

TimeStr(h) == <<DigitChars[(h \div 10) + 1], DigitChars[(h % 10) + 1], ":">>
Row(h, r, s) == [time |-> TimeStr(h), results |-> <<r>>, spend |-> <<s>>]

(* one row per hour of the day, r results and s spent in each *)
FlatDay(r, s) == [i \in 1..HoursPerDay |-> Row(i - 1, r, s)]

(* 10 results per hour, 1 spent, except hours 2-4 with 5 spent *)
PeakDay ==
    [i \in 1..HoursPerDay |-> Row(i - 1, 10, IF i - 1 \in 2..4 THEN 5 ELSE 1)]

(* a day whose hours differ in results and in spend *)
VariedDay ==
    [i \in 1..HoursPerDay |->
        Row(i - 1, 1 + ((i - 1) % 3), 1 + ((5 * (i - 1)) % 7))]

(* a file in which most hours of the day have no row *)
SparseDay == <<Row(3, 2, 5), Row(12, 2, 1), Row(13, 1, 1)>>

(* a file with a row whose time of day does not start with a number *)
BadTimeDay ==
    Append(SparseDay,
           [time |-> <<"x", "1", ":">>, results |-> <<1>>, spend |-> <<1>>])

(* the files an upload starts from; every file has at least one row *)
InitialFiles ==
    {FlatDay(10, 1), FlatDay(10, 0), FlatDay(0, 1), PeakDay, VariedDay,
     SparseDay, BadTimeDay}

ExtraTimes == {TimeStr(0), <<"9", "9", ":">>}
ExtraResults == {<<>>, <<2>>}
ExtraSpend == {<<>>, <<3>>}

(* unrounded p-values of the t-test, in units of 1e-5 *)
PInputs == {1000, 4996, 5004, 30000}
TTestTables ==
    {[w \in WindowSizes |-> IF w = 3 THEN a ELSE IF w = 4 THEN b ELSE c] :
        a \in PInputs, b \in PInputs, c \in {1000, 30000}}

FileCurrency == "USD"
Currencies == {"USD", "EUR"}

-----------------------------------------------------------------------------
(* The state machine *)

Init ==
    /\ rows \in InitialFiles
    /\ added = 0
    /\ ttest = <<>>
    /\ pc = "input"
    /\ hourly = <<>>
    /\ current_avg_cost = Zero
    /\ scans = <<>>
    /\ results = <<>>
    /\ recommendation = <<>>

(* one more row in the file that will be uploaded *)
AddRow ==
    /\ pc = "input"
    /\ added < MaxExtraRows
    /\ \E t \in ExtraTimes, r \in ExtraResults, s \in ExtraSpend :
          rows' = Append(rows, [time |-> t, results |-> r, spend |-> s])
    /\ added' = added + 1
    /\ UNCHANGED <<ttest, pc, hourly, current_avg_cost, scans, results,
                   recommendation>>

RECURSIVE SweepFrom(_, _, _, _)
(* lines 96-99: for window_size in range(3, 13), up to the t-test *)
SweepFrom(hly, cur, window_size, acc) ==
    IF window_size >= MaxWindowExcl THEN acc
    ELSE SweepFrom(hly, cur, window_size + 1,
                   Append(acc, ScanStats(hly, cur, window_size)))

Sweep(hly, cur) == SweepFrom(hly, cur, MinWindow, <<>>)

RECURSIVE TTestFrom(_, _, _, _, _)
(* line 82 of the calls i..10, with the library's p-values *)
TTestFrom(stats, hly, table, i, acc) ==
    IF i > Len(stats) THEN acc
    ELSE TTestFrom(stats, hly, table, i + 1,
                   Append(acc, WithTTest(stats[i], hly,
                                         table[stats[i].window_size])))

RECURSIVE ReturnedFrom(_, _, _, _)
(* results.append(result) of the calls i..10 *)
ReturnedFrom(cur, locs, i, acc) ==
    IF i > Len(locs) THEN acc
    ELSE ReturnedFrom(cur, locs, i + 1, Append(acc, Returned(cur, locs[i])))

(* POST /analyze with the form's currency.  table is what the t-test
   library returns for this file where its formula does not force the
   p-value. *)
Analyze(currency) ==
    /\ pc = "input"
    /\ \/ /\ currency # FileCurrency        \* line 25: raise ValueError
          /\ pc' = "error"
          /\ UNCHANGED <<ttest, hourly, current_avg_cost, scans, results,
                         recommendation>>
       \/ /\ currency = FileCurrency
          /\ ~HoursParse(rows)              \* line 28: astype(int) raises
          /\ pc' = "error"
          /\ UNCHANGED <<ttest, hourly, current_avg_cost, scans, results,
                         recommendation>>
       \/ /\ currency = FileCurrency
          /\ HoursParse(rows)
          /\ \E hly \in {Aggregate(Normalized(rows))} :
             \E cur \in {CurrentAvgCost(hly)} :
             \E stats \in {Sweep(hly, cur)} :
             \E table \in TTestTables :
             \E locs \in {TTestFrom(stats, hly, table, 1, <<>>)} :
             \E rs \in {ReturnedFrom(cur, locs, 1, <<>>)} :
                /\ hourly' = hly
                /\ current_avg_cost' = cur
                /\ scans' = locs
                /\ results' = rs
                /\ recommendation' = Recommend(rs)
                /\ ttest' = table
          /\ pc' = "done"
    /\ UNCHANGED <<rows, added>>

Next ==
    \/ AddRow
    \/ \E currency \in Currencies : Analyze(currency)

Spec == Init /\ [][Next]_vars

-----------------------------------------------------------------------------
(* Vocabulary of the properties *)

Done == pc = "done"
DayHours == 0 .. (HoursPerDay - 1)
Slots == 1 .. (MaxWindowExcl - MinWindow)

Leq(x, y) == IsNum(x) /\ IsNum(y) /\ ~Lt(y, x)

(* The selection the specification describes, on sequences ps of p-values
   and imps of improvements: with a p-value below 0.05, the first slot of
   greatest improvement among those; otherwise the first slot whose p-value
   is closest to 0.05, an undefined p-value being farther than any number *)
SigSlots(ps) == {i \in DOMAIN ps : IsNum(ps[i]) /\ Lt(ps[i], Threshold)}
Distance(x) == Abs(Sub(x, Threshold))
AsClose(x, y) == IsNaN(y) \/ (IsNum(x) /\ IsNum(y) /\ Leq(Distance(x), Distance(y)))
First(S) == CHOOSE i \in S : \A j \in S : i <= j
SpecChoice(ps, imps) ==
    IF SigSlots(ps) # {}
    THEN First({i \in SigSlots(ps) :
                  \A j \in SigSlots(ps) : Leq(imps[j], imps[i])})
    ELSE First({i \in DOMAIN ps : \A j \in DOMAIN ps : AsClose(ps[i], ps[j])})
SpecStyle(ps) == IF SigSlots(ps) # {} THEN "success" ELSE "warning"

ReportedP == [i \in DOMAIN results |-> results[i].p_value]
ReportedImp == [i \in DOMAIN results |-> results[i].improvement_percentage]
ExactP == [i \in DOMAIN scans |-> scans[i].p_value]
ExactImp == [i \in DOMAIN scans |-> scans[i].improvement_percentage]

SameFields(rec, res) ==
    /\ rec.window_size = res.window_size
    /\ rec.worst_consecutive_hours = res.worst_consecutive_hours
    /\ rec.current_avg_cost = res.current_avg_cost
    /\ rec.avg_cost_worst_hours = res.avg_cost_worst_hours
    /\ rec.avg_cost_remaining_hours = res.avg_cost_remaining_hours
    /\ rec.improvement_percentage = res.improvement_percentage
    /\ rec.p_value = res.p_value

(* C1: the ten results are those of window sizes 3..12 in order, and the
   recommendation is the result the selection rule names (most improvement
   among the results with p < 0.05, first on ties, styled success; else
   closest p to 0.05, first on ties, styled warning), its fields unchanged *)
RecommenderSelection ==
    Done =>
        /\ DOMAIN results = Slots
        /\ \A i \in Slots : results[i].window_size = MinWindow + i - 1
        /\ SameFields(recommendation,
                      results[SpecChoice(ReportedP, ReportedImp)])
        /\ recommendation.style = SpecStyle(ReportedP)

(* a success with several significant results where the recommended one is
   not the first of them, and a later one ties with it *)
RecommenderSelectionWitness ==
    /\ Done
    /\ recommendation.style = "success"
    /\ \E i, j, k \in SigSlots(ReportedP) :
          /\ i < j /\ j < k
          /\ recommendation.window_size = results[j].window_size
          /\ Lt(ReportedImp[i], ReportedImp[j])
          /\ Eq(ReportedImp[j], ReportedImp[k])

(* C2: every worstHours is a circular block of exactly w hours *)
WorstHoursIsBlock ==
    Done =>
        \A i \in DOMAIN scans :
            \E s \in DayHours :
                scans[i].worst_consecutive_hours
                    = [k \in 1..scans[i].window_size |->
                          (s + (k - 1)) % HoursPerDay]

(* C3: the worst and the remaining group are disjoint, cover the 24 hours,
   and the remaining group has 24 - w hours *)
PartitionCompleteness ==
    Done =>
        \A i \in DOMAIN scans :
            /\ scans[i].worst_hours_data \cap scans[i].remaining_hours_data = {}
            /\ scans[i].worst_hours_data \cup scans[i].remaining_hours_data
                  = DayHours
            /\ Cardinality(scans[i].remaining_hours_data)
                  = HoursPerDay - scans[i].window_size

RowsOfHour(h) == {i \in 1..Len(rows) : HourOf(rows[i]) = [ok |-> TRUE, v |-> h]}

(* C4: exactly 24 buckets keyed 0..23; an hour with no row has zero totals *)
Completeness ==
    Done =>
        /\ DOMAIN hourly = DayHours
        /\ \A h \in DayHours :
              RowsOfHour(h) = {} =>
                  hourly[h].results = 0 /\ hourly[h].spend = 0

RECURSIVE SumOf(_, _)
(* sum of the function f over the finite set S *)
SumOf(f, S) ==
    IF S = {} THEN 0
    ELSE LET x == CHOOSE y \in S : TRUE IN f[x] + SumOf(f, S \ {x})

BucketResults(S) == SumOf([h \in DOMAIN hourly |-> hourly[h].results], S)
BucketSpend(S) == SumOf([h \in DOMAIN hourly |-> hourly[h].spend], S)
EventResults == SumOf([i \in 1..Len(rows) |-> FillNa(rows[i].results)], 1..Len(rows))
EventSpend == SumOf([i \in 1..Len(rows) |-> FillNa(rows[i].spend)], 1..Len(rows))

IsZero(x) == IsNum(x) /\ x.n = 0

(* C5: every ratio whose denominator is 0 is 0 *)
ZeroSafety ==
    Done =>
        /\ \A h \in DOMAIN hourly :
              hourly[h].results = 0 => IsZero(hourly[h].cpr)
        /\ BucketResults(DOMAIN hourly) = 0 => IsZero(current_avg_cost)
        /\ \A i \in DOMAIN scans :
              /\ BucketResults(scans[i].worst_hours_data) = 0
                    => IsZero(scans[i].avg_cost_worst_hours)
              /\ BucketResults(scans[i].remaining_hours_data) = 0
                    => IsZero(scans[i].avg_cost_remaining_hours)
              /\ (IsZero(current_avg_cost) \/ BucketResults(DOMAIN hourly) = 0)
                    => IsZero(scans[i].improvement_percentage)

(* C6: the recommended window size is the one the selection rule names on
   the unrounded p-values and improvements *)
RoundingBoundary ==
    Done =>
        recommendation.window_size
            = scans[SpecChoice(ExactP, ExactImp)].window_size

(* C7: an analysis that ends with a recommendation has read no row whose
   hour is non-numeric or outside 0..23, and no bucket or group has such an
   hour *)
HourValidation ==
    Done =>
        /\ \A i \in 1..Len(rows) :
              HourOf(rows[i]).ok /\ HourOf(rows[i]).v \in DayHours
        /\ DOMAIN hourly \subseteq DayHours
        /\ \A i \in DOMAIN scans : scans[i].remaining_hours_data \subseteq DayHours

(* C8: the buckets' results and spend add up to the events' results and
   spend, and current_avg_cost is the quotient of these two sums *)
Conservation ==
    Done =>
        /\ BucketResults(DOMAIN hourly) = EventResults
        /\ BucketSpend(DOMAIN hourly) = EventSpend
        /\ EventResults > 0 =>
              /\ IsNum(current_avg_cost)
              /\ current_avg_cost.n * EventResults
                    = EventSpend * current_avg_cost.d

(* an hour with two rows, one of them with an empty cell, was aggregated *)
ConservationWitness ==
    /\ Done
    /\ \E i, j \in 1..Len(rows) :
          /\ i < j
          /\ HourOf(rows[i]) = HourOf(rows[j])
          /\ rows[i].spend # <<>> /\ rows[i].spend # <<0>>
          /\ rows[j].spend # <<>> /\ rows[j].results = <<>>
    /\ EventResults > 0

(* average cost of the circular block of w hours from s, from the buckets *)
BlockCost(s, w) ==
    LET hs == {(s + k) % HoursPerDay : k \in 0..(w - 1)} \cap DOMAIN hourly
    IN IF BucketResults(hs) = 0 THEN Zero
       ELSE Num(BucketSpend(hs), BucketResults(hs))

(* C9: the chosen block is the block of the least start among the blocks of
   greatest average cost *)
ScanMaximum ==
    Done =>
        \A i \in DOMAIN scans :
            LET w == scans[i].window_size
                best == First({s \in DayHours :
                          \A t \in DayHours : Leq(BlockCost(t, w), BlockCost(s, w))})
            IN scans[i].worst_consecutive_hours
                  = [k \in 1..w |-> (best + (k - 1)) % HoursPerDay]

(* C10: when each of the 24 hours has results, the worst block costs at
   least the current average, the remaining hours at most, and the
   improvement is a number >= 0 *)
WorstBlockOrdering ==
    (Done /\ \A h \in DayHours : h \in DOMAIN hourly /\ hourly[h].results > 0) =>
        \A i \in DOMAIN scans :
            /\ Leq(current_avg_cost, scans[i].avg_cost_worst_hours)
            /\ Leq(scans[i].avg_cost_remaining_hours, current_avg_cost)
            /\ Leq(Zero, scans[i].improvement_percentage)

====
